---- MODULE Spec2Model ----
(***************************************************************************)
(* Model of VoiceGuardVoicemail.                                           *)
(*                                                                         *)
(* Specifications:                                                         *)
(*   Spec           the pure functions of utils/signalProcessing.ts (FFT,  *)
(*                  powerSpectrum, preEmphasis, the filters, centroid and  *)
(*                  flatness), applied to inputs drawn by Init             *)
(*   SpecFeatures   one AudioProcessor.extractFeatures call                *)
(*   SpecRepeat     several extractFeatures calls on two instances         *)
(*   SpecAnalyze    one analyzeVoice call (services/voiceAnalysisService)  *)
(*   SpecRecorder   start() / stop() calls and timers of audioRecorder     *)
(*   SpecService    the background service and its CallDetector wrappers   *)
(*   SpecBlockList  concurrent block-list calls (unnamed/part_010)         *)
(*   SpecContext    overlapping analyses of CallDetectionProvider          *)
(***************************************************************************)
EXTENDS Integers, Sequences, FiniteSets, TLC

VARIABLES
    signal,        \* Float32Array handed to the pure function
    cutoffFreq,    \* cutoff of the filters, <<num, den, ulps>>
    op,            \* the pure function that was called ("none" before the call)
    ret,           \* what the call produced: [threw |-> message or "", value |-> array]
    audioData,     \* waveform handed to extractFeatures
    pc,            \* position of the extractFeatures call
    frames,        \* the frame tensor (sequence of rows)
    i,             \* loop index of the batch loop
    lfccFeatures,  \* per-batch coefficient tensors pushed so far
    lfccArray,     \* the matrix extractFeatures resolves to
    error,         \* message extractFeatures rejected with, "" if none
    alpha,         \* pre-emphasis coefficient, a fraction <<num, den>>
    dctMatrices,   \* number of cosine matrices dct has constructed so far
    tensors,       \* tensors the call allocated |-> number of times disposed
    processors,    \* the fields of each AudioProcessor instance
    self,          \* the instance extractFeatures was called on
    history,       \* waveform and outcome of the invocations that ended earlier
    calls,         \* number of extractFeatures invocations so far
    analysis,      \* one analyzeVoice call: position, loop counter, outcome
    recorder,      \* the audioRecorder singleton, its calls in flight, the native recorder
    service,       \* the background service: module state, CallDetector wrappers, callbacks
    blockList,     \* the stored block list and the calls reading and writing it
    context        \* CallDetectionProvider: isAnalyzing and the analyses in flight

vars == <<signal, cutoffFreq, op, ret, audioData, pc, frames, i,
          lfccFeatures, lfccArray, error, alpha, dctMatrices, tensors,
          processors, self, history, calls, analysis, recorder, service,
          blockList, context>>

dspVars == <<signal, cutoffFreq, op, ret, alpha>>
procVars == <<processors, self, history, calls>>
featVars == <<audioData, pc, frames, i, lfccFeatures, lfccArray, error,
              dctMatrices, tensors, procVars>>
appVars == <<analysis, recorder, service, blockList, context>>

(***************************************************************************)
(* Bounds of the model.                                                    *)
(***************************************************************************)
MaxLen == 4          \* longest signal handed to a pure function
MaxSteps == 33       \* waveforms reach MaxSteps * frameStep + 159 samples
MaxCalls == 3        \* extractFeatures invocations in a row
StackLimit == 16     \* nested calls the engine's stack holds
MaxStarts == 2       \* audioRecorder.start() calls
MaxStops == 2        \* audioRecorder.stop() calls made by clients
MaxInits == 2        \* initBackgroundService() calls
MaxDetectors == 2    \* CallDetector wrappers constructed
MaxOps == 3          \* addToBlockList / removeFromBlockList calls
MaxAnalyses == 3     \* analyzeIncomingCall / analyzeCall invocations

Processors == {1, 2}

Samples == {-1, 0, 1}
\* cutoffs <<num, den, ulps>>: the double num/den, or for ulps = -1 the
\* double next below it (0.25 - 2^-55, 0.5 - 2^-54)
Cutoffs == {<<0, 1, 0>>, <<1, 4, 0>>, <<1, 2, 0>>, <<1, 4, -1>>, <<1, 2, -1>>}
Offsets == {0, 1, 159}
Patterns == {1, 3}

(***************************************************************************)
(* Program constants (AudioProcessor fields).                              *)
(***************************************************************************)
frameLength == 400
frameStep == 160
fftSize == 512
numCoeffs == 20
batchSize == 32

(***************************************************************************)
(* JavaScript numbers as far as the code needs them: exact rationals,      *)
(* NaN, undefined (an out-of-range typed-array read) and "inexact" (a      *)
(* finite number whose value involves an irrational twiddle factor).       *)
(***************************************************************************)
Abs(x) == IF x < 0 THEN -x ELSE x

RECURSIVE GCD(_, _)
GCD(a, b) == IF b = 0 THEN a ELSE GCD(b, a % b)

Rat(n, d) ==
    LET g == GCD(Abs(n), d)
    IN  IF n = 0 THEN [k |-> "num", n |-> 0, d |-> 1]
        ELSE [k |-> "num", n |-> n \div g, d |-> d \div g]

Num(n) == [k |-> "num", n |-> n, d |-> 1]
NaN == [k |-> "NaN", n |-> 0, d |-> 1]
Undefined == [k |-> "undefined", n |-> 0, d |-> 1]
Inexact == [k |-> "inexact", n |-> 0, d |-> 1]

IsNumber(v) == v.k \in {"num", "inexact"}

\* binary arithmetic: undefined converts to NaN, NaN is absorbing
Arith(a, b, exact) ==
    IF a.k \in {"NaN", "undefined"} \/ b.k \in {"NaN", "undefined"} THEN NaN
    ELSE IF a.k = "inexact" \/ b.k = "inexact" THEN Inexact
    ELSE exact

Add(a, b) == Arith(a, b, Rat(a.n * b.d + b.n * a.d, a.d * b.d))
Sub(a, b) == Arith(a, b, Rat(a.n * b.d - b.n * a.d, a.d * b.d))
Mul(a, b) == Arith(a, b, Rat(a.n * b.n, a.d * b.d))
DivBy(a, n) == Arith(a, Num(n), Rat(a.n, a.d * n))

\* arr[idx] on a Float32Array: undefined outside 0..length-1
Get(arr, idx) == IF idx + 1 \in DOMAIN arr THEN arr[idx + 1] ELSE Undefined

\* the value a Float32Array element holds after a store
ToFloat(v) == IF v.k = "undefined" THEN NaN ELSE v

\* arr[idx] = v on a Float32Array: ignored outside 0..length-1
Put(arr, idx, v) ==
    IF idx + 1 \in DOMAIN arr THEN [arr EXCEPT ![idx + 1] = ToFloat(v)] ELSE arr

Zeros(n) == [j \in 1..n |-> Num(0)]

\* bit j of the two's-complement int32 x
Bit(x, j) == IF x >= 0 THEN (x \div (2 ^ j)) % 2
             ELSE 1 - (((-x - 1) \div (2 ^ j)) % 2)

RECURSIVE LowBits(_, _, _)
LowBits(a, b, j) ==
    IF j < 0 THEN 0 ELSE Bit(a, j) * Bit(b, j) * (2 ^ j) + LowBits(a, b, j - 1)

\* a & b on int32 operands (JavaScript's bitwise AND)
BitAnd(a, b) ==
    IF a < 0 /\ b < 0 THEN (-2147483647 - 1) + LowBits(a, b, 30)
    ELSE LowBits(a, b, 30)

Return(v) == [threw |-> "", value |-> v]
Throw(msg) == [threw |-> msg, value |-> <<>>]

PreconditionError == "FFT length must be a power of 2"
RangeError == "Maximum call stack size exceeded"

(***************************************************************************)
(* FFT (signalProcessing.ts 10-62).                                        *)
(***************************************************************************)
\* (Math.cos(theta), Math.sin(theta)) for theta = -2*PI*k/n
Twiddle(k, n) ==
    IF k = 0 THEN <<Num(1), Num(0)>>
    ELSE IF 4 * k = n THEN <<Num(0), Num(-1)>>
    ELSE IF 2 * k = n THEN <<Num(-1), Num(0)>>
    ELSE IF 4 * k = 3 * n THEN <<Num(0), Num(1)>>
    ELSE <<Inexact, Inexact>>

\* the combine loop, lines 37-59: result after iterations 0..k-1
RECURSIVE Combine(_, _, _, _)
Combine(evenFFT, oddFFT, n, k) ==
    IF k = 0 THEN Zeros(n * 2)
    ELSE LET prev == Combine(evenFFT, oddFFT, n, k - 1)
             j == k - 1
             re == Twiddle(j, n)[1]
             im == Twiddle(j, n)[2]
             oddRe == Get(oddFFT, j * 2)
             oddIm == Get(oddFFT, j * 2 + 1)
             tRe == Sub(Mul(oddRe, re), Mul(oddIm, im))
             tIm == Add(Mul(oddRe, im), Mul(oddIm, re))
             r1 == Put(prev, j * 2, Add(Get(evenFFT, j * 2), tRe))
             r2 == Put(r1, j * 2 + 1, Add(Get(evenFFT, j * 2 + 1), tIm))
             r3 == Put(r2, (j + n \div 2) * 2, Sub(Get(evenFFT, j * 2), tRe))
         IN  Put(r3, (j + n \div 2) * 2 + 1, Sub(Get(evenFFT, j * 2 + 1), tIm))

RECURSIVE FFT(_)
FFT(sig) ==
    LET n == Len(sig)
    IN  IF BitAnd(n, n - 1) # 0 THEN Throw(PreconditionError)
        ELSE IF n = 1 THEN Return(sig)
        \* n = 0 passes the test above and recurses on two empty halves
        \* without ever reaching the base case: the engine's stack overflows
        ELSE IF n = 0 THEN Throw(RangeError)
        ELSE LET even == [j \in 1..(n \div 2) |-> sig[2 * j - 1]]
                 odd == [j \in 1..(n \div 2) |-> sig[2 * j]]
                 evenFFT == FFT(even)
                 oddFFT == FFT(odd)
             IN  IF evenFFT.threw # "" THEN evenFFT
                 ELSE IF oddFFT.threw # "" THEN oddFFT
                 ELSE Return(Combine(evenFFT.value, oddFFT.value, n, n \div 2))

\* nesting depth of the recursion of lines 33-34 on a signal of length n,
\* entered at depth; the halves have length n / 2, and the count stops
\* where the engine's stack is exhausted
RECURSIVE FFTDepth(_, _)
FFTDepth(n, depth) ==
    IF depth > StackLimit THEN depth
    ELSE IF BitAnd(n, n - 1) # 0 THEN depth
    ELSE IF n = 1 THEN depth
    ELSE FFTDepth(n \div 2, depth + 1)

(***************************************************************************)
(* powerSpectrum (signalProcessing.ts 69-86).                              *)
(***************************************************************************)
\* the loop of lines 78-80: power after iterations 1..k
RECURSIVE PowerLoop(_, _, _)
PowerLoop(fft, power, k) ==
    IF k < 1 THEN power
    ELSE Put(PowerLoop(fft, power, k - 1), k,
             Add(Mul(Get(fft, k * 2), Get(fft, k * 2)),
                 Mul(Get(fft, k * 2 + 1), Get(fft, k * 2 + 1))))

powerSpectrum(sig) ==
    LET fft == FFT(sig)
        n == Len(sig)
        \* new Float32Array(n / 2 + 1) truncates a fractional length
        p0 == Put(Zeros(n \div 2 + 1), 0,
                  Add(Mul(Get(fft.value, 0), Get(fft.value, 0)),
                      Mul(Get(fft.value, 1), Get(fft.value, 1))))
        \* i < n / 2 is compared as a real: the last i is ceil(n / 2) - 1
        p1 == PowerLoop(fft.value, p0, (n + 1) \div 2 - 1)
        \* power[n / 2] = ... is a store to a non-index key when n is odd
        p2 == IF n % 2 = 0
              THEN Put(p1, n \div 2, Mul(Get(fft.value, 1), Get(fft.value, 1)))
              ELSE p1
    IN  IF fft.threw # "" THEN fft ELSE Return(p2)

(***************************************************************************)
(* lowPassFilter / highPassFilter (signalProcessing.ts 144-203).           *)
(***************************************************************************)
\* freq > c and freq < c for freq = idx / n and c = <<num, den, ulps>>
FreqAbove(idx, n, c) ==
    \/ idx * c[2] > c[1] * n
    \/ idx * c[2] = c[1] * n /\ c[3] < 0
FreqBelow(idx, n, c) ==
    \/ idx * c[2] < c[1] * n
    \/ idx * c[2] = c[1] * n /\ c[3] > 0

\* 1 - cutoffFreq in double arithmetic: the spacing of doubles next to
\* 1 - num/den is at least twice the spacing next to num/den <= 0.5, so
\* the difference rounds (ties to even) to the double (den - num)/den
OneMinus(c) == <<c[2] - c[1], c[2], 0>>

lowPassZeroes(idx, n, c) == FreqAbove(idx, n, c) /\ FreqBelow(idx, n, OneMinus(c))
\* highPassFilter attenuating the bins on the cutoff as well (<= for <)
highPassZeroes_Inclusive(idx, n, c) ==
    ~FreqAbove(idx, n, c) \/ ~FreqBelow(idx, n, OneMinus(c))

highPassZeroes(idx, n, c) == FreqBelow(idx, n, c) \/ FreqAbove(idx, n, OneMinus(c))

\* the zeroing loops, lines 149-157 and 183-191: fft after iterations 0..k-1
RECURSIVE ZeroLoop(_, _, _, _, _)
ZeroLoop(fft, n, c, low, k) ==
    IF k = 0 THEN fft
    ELSE LET prev == ZeroLoop(fft, n, c, low, k - 1)
             idx == k - 1
             hit == IF low THEN lowPassZeroes(idx, n, c) ELSE highPassZeroes(idx, n, c)
         IN  IF hit THEN Put(Put(prev, idx * 2, Num(0)), idx * 2 + 1, Num(0))
             ELSE prev

\* lines 161-169 and 194-202: second transform, real part scaled by 1/n
Reconstruct(fft, n) ==
    LET result == FFT(fft)
    IN  IF result.threw # "" THEN result
        ELSE Return([j \in 1..n |-> ToFloat(DivBy(Get(result.value, (j - 1) * 2), n))])

lowPassFilter(sig, c) ==
    LET n == Len(sig)
        fft == FFT(sig)
    IN  IF fft.threw # "" THEN fft
        ELSE Reconstruct(ZeroLoop(fft.value, n, c, TRUE, n), n)

highPassFilter(sig, c) ==
    LET n == Len(sig)
        fft == FFT(sig)
    IN  IF fft.threw # "" THEN fft
        ELSE Reconstruct(ZeroLoop(fft.value, n, c, FALSE, n), n)

(***************************************************************************)
(* Which array the filters write to.  FFT returns either a copy of its     *)
(* argument (line 20) or the array allocated at line 37; the zeroing loops *)
(* of the filters store into whatever FFT returned.                        *)
(***************************************************************************)
\* FFT returning its argument itself in the base case
FFTResultBuffer_Argument(n) == IF n = 1 THEN "signal" ELSE "result"

FFTResultBuffer(n) == IF n = 1 THEN "copy" ELSE "result"

\* the caller's array after lowPassFilter (low) or highPassFilter
signalAfterFilter(sig, c, low) ==
    IF FFT(sig).threw = "" /\ FFTResultBuffer(Len(sig)) = "signal"
    THEN ZeroLoop(sig, Len(sig), c, low, Len(sig))
    ELSE sig

(***************************************************************************)
(* preEmphasis (signalProcessing.ts 94-103).                               *)
(***************************************************************************)
\* the loop of lines 98-100: result after iterations 1..k
RECURSIVE PreEmphasisLoop(_, _, _, _)
PreEmphasisLoop(sig, a, result, k) ==
    IF k < 1 THEN result
    ELSE Put(PreEmphasisLoop(sig, a, result, k - 1), k,
             Sub(Get(sig, k), Mul(Rat(a[1], a[2]), Get(sig, k - 1))))

\* preEmphasis adding the scaled previous sample instead of subtracting it
preEmphasis_Adds(sig, a) ==
    LET r0 == Put(Zeros(Len(sig)), 0, Get(sig, 0))
        added == [j \in 1..Len(sig) |->
                     IF j = 1 THEN r0[1]
                     ELSE Add(sig[j], Mul(Rat(a[1], a[2]), sig[j - 1]))]
    IN  Return(added)

preEmphasis(sig, a) ==
    LET r0 == Put(Zeros(Len(sig)), 0, Get(sig, 0))
    IN  Return(PreEmphasisLoop(sig, a, r0, Len(sig) - 1))

(***************************************************************************)
(* spectralCentroid and spectralFlatness (signalProcessing.ts 211-253).    *)
(***************************************************************************)
Infinity == [k |-> "Infinity", n |-> 1, d |-> 1]

\* a / b on numbers
Quot(a, b) ==
    IF b.k = "num" /\ b.n = 0
    THEN IF a.k = "num" /\ a.n # 0 THEN Infinity ELSE NaN
    ELSE Arith(a, b, IF b.n < 0 THEN Rat(-(a.n * b.d), a.d * (-b.n))
                     ELSE Rat(a.n * b.d, a.d * b.n))

\* v > 0: false for NaN
Positive(v) == v.k \in {"num", "Infinity"} /\ v.n > 0

\* cond ? a / b : 0 where cond is b > 0; the sign of an inexact b is not known
QuotIfPositive(a, b) ==
    IF b.k = "inexact" THEN Inexact
    ELSE IF Positive(b) THEN Quot(a, b) ELSE Num(0)

\* sum of f[1..k], accumulated from 0
RECURSIVE SumTo(_, _)
SumTo(f, k) == IF k = 0 THEN Num(0) ELSE Add(SumTo(f, k - 1), f[k])

\* lines 212-222 applied to the computed power spectrum; guarded is the
\* test totalPower > 0 of line 222
centroidOfPower(power, rate, guarded) ==
    LET len == Len(power.value)
        weighted == [j \in 1..len |->
                        Mul(Rat((j - 1) * rate, 2 * len), power.value[j])]
        weightedSum == SumTo(weighted, len)
        sum == SumTo(power.value, len)
    IN  IF power.threw # "" THEN power
        ELSE IF guarded THEN Return(QuotIfPositive(weightedSum, sum))
        ELSE Return(Quot(weightedSum, sum))

\* spectralCentroid returning the quotient without testing totalPower
spectralCentroid_NoGuard(sig, rate) ==
    centroidOfPower(powerSpectrum(sig), rate, FALSE)

spectralCentroid(sig, rate) ==
    centroidOfPower(powerSpectrum(sig), rate, TRUE)

MaxEpsilon(v) ==
    IF v.k \in {"NaN", "undefined"} THEN NaN
    ELSE IF v.k = "inexact" \/ v.n <= 0 THEN Inexact
    ELSE v

\* Math.log and Math.exp: NaN for NaN, otherwise a value that is not tracked
Log(v) ==
    IF v.k \in {"NaN", "undefined"} THEN NaN
    ELSE IF v.k = "num" /\ v.n < 0 THEN NaN
    ELSE IF v.k = "num" /\ v.n = 0 THEN [k |-> "Infinity", n |-> -1, d |-> 1]
    ELSE Inexact

Exp(v) == IF v.k \in {"NaN", "undefined"} THEN NaN ELSE Inexact

\* lines 232-250: the two means of the floored power spectrum
flatnessMeans(power) ==
    LET len == Len(power)
        floored == [j \in 1..len |-> ToFloat(MaxEpsilon(power[j]))]
        logs == [j \in 1..len |-> Log(floored[j])]
    IN  [geometricMean |-> Exp(DivBy(SumTo(logs, len), len)),
         arithmeticMean |-> DivBy(SumTo(floored, len), len)]

\* lines 231-252 applied to the computed power spectrum; guarded is the
\* test arithmeticMean > 0 of line 252
flatnessOfPower(power, guarded) ==
    LET means == flatnessMeans(power.value)
    IN  IF power.threw # "" THEN power
        ELSE IF guarded
        THEN Return(QuotIfPositive(means.geometricMean, means.arithmeticMean))
        ELSE Return(Quot(means.geometricMean, means.arithmeticMean))

\* spectralFlatness returning the ratio without testing arithmeticMean
spectralFlatness_NoGuard(sig) == flatnessOfPower(powerSpectrum(sig), FALSE)

spectralFlatness(sig) == flatnessOfPower(powerSpectrum(sig), TRUE)

(***************************************************************************)
(* Specification of the pure functions: Init draws the input, one action   *)
(* per exported function applies it.                                       *)
(***************************************************************************)
Signals == UNION {[1..len -> {Num(s) : s \in Samples}] : len \in 0..MaxLen}

NoCall == [threw |-> "", value |-> <<>>]

\* the fields of a constructed AudioProcessor, lines 266-271
NewProcessor ==
    [frameLength |-> frameLength, frameStep |-> frameStep, fftSize |-> fftSize,
     numCoeffs |-> numCoeffs, batchSize |-> batchSize]

FeaturesIdle ==
    /\ audioData = <<>>
    /\ pc = "idle"
    /\ frames = <<>>
    /\ i = 0
    /\ lfccFeatures = <<>>
    /\ lfccArray = <<>>
    /\ error = ""
    /\ dctMatrices = 0
    /\ tensors = <<>>
    /\ processors = [p \in Processors |-> NewProcessor]
    /\ self = 1
    /\ history = {}
    /\ calls = 0

DspIdle ==
    /\ signal = <<>>
    /\ cutoffFreq = <<0, 1, 0>>
    /\ alpha = <<97, 100>>
    /\ op = "none"
    /\ ret = NoCall

\* no analyzeVoice call has been made
AnalysisIdle ==
    analysis = [pc |-> "idle", fileOk |-> FALSE, attempt |-> 0, requests |-> 0,
                failures |-> <<>>, result |-> "", error |-> ""]

\* the audioRecorder singleton as constructed (backgroundService.ts 390-393, 572)
NewRecorder ==
    [isRecordingFlag |-> FALSE, recordingTimeout |-> 0, timers |-> {},
     nativeActive |-> FALSE, startedWhileActive |-> FALSE,
     starts |-> [s \in 1..MaxStarts |-> "idle"], stopping |-> 0, stopCalls |-> 0]

\* the module state of backgroundService.ts as loaded (lines 74-77)
NewService(platform) ==
    [platform |-> platform, isServiceRunning |-> FALSE, callDetectorInstance |-> 0,
     backgroundTaskId |-> 0, subscribed |-> FALSE, fetchConfigured |-> FALSE,
     initPc |-> "idle", inits |-> 0, stopped |-> FALSE,
     wrappers |-> <<>>, errors |-> <<>>]

\* nothing stored under BLOCK_LIST_KEY and no call made (part_010 line 3)
EmptyBlockList ==
    [stored |-> <<>>,
     ops |-> [o \in 1..MaxOps |-> [kind |-> "none", number |-> "", pc |-> "idle",
                                   list |-> <<>>]],
     resolved |-> {}]

\* the provider as first rendered (CallDetectionContext.tsx 84)
NewContext ==
    [isAnalyzing |-> FALSE,
     invocations |-> [c \in 1..MaxAnalyses |-> [kind |-> "none", pc |-> "idle"]]]

AppIdle ==
    /\ AnalysisIdle
    /\ recorder = NewRecorder
    /\ service = NewService("ios")
    /\ blockList = EmptyBlockList
    /\ context = NewContext

Alphas == {<<97, 100>>, <<1, 2>>}
SampleRates == {16000, 44100}

Init ==
    /\ signal \in Signals
    /\ cutoffFreq \in Cutoffs
    /\ alpha \in Alphas
    /\ op = "none"
    /\ ret = NoCall
    /\ FeaturesIdle
    /\ AppIdle

CallFFT ==
    /\ op = "none"
    /\ op' = "FFT"
    /\ ret' = FFT(signal)
    /\ UNCHANGED <<signal, cutoffFreq, alpha, featVars, appVars>>

CallPowerSpectrum ==
    /\ op = "none"
    /\ op' = "powerSpectrum"
    /\ ret' = powerSpectrum(signal)
    /\ UNCHANGED <<signal, cutoffFreq, alpha, featVars, appVars>>

CallPreEmphasis ==
    /\ op = "none"
    /\ op' = "preEmphasis"
    /\ ret' = preEmphasis(signal, alpha)
    /\ UNCHANGED <<signal, cutoffFreq, alpha, featVars, appVars>>

CallLowPassFilter ==
    /\ op = "none"
    /\ op' = "lowPassFilter"
    /\ ret' = lowPassFilter(signal, cutoffFreq)
    /\ signal' = signalAfterFilter(signal, cutoffFreq, TRUE)
    /\ UNCHANGED <<cutoffFreq, alpha, featVars, appVars>>

CallHighPassFilter ==
    /\ op = "none"
    /\ op' = "highPassFilter"
    /\ ret' = highPassFilter(signal, cutoffFreq)
    /\ signal' = signalAfterFilter(signal, cutoffFreq, FALSE)
    /\ UNCHANGED <<cutoffFreq, alpha, featVars, appVars>>

CallSpectralCentroid ==
    /\ op = "none"
    /\ op' = "spectralCentroid"
    /\ \E rate \in SampleRates : ret' = spectralCentroid(signal, rate)
    /\ UNCHANGED <<signal, cutoffFreq, alpha, featVars, appVars>>

CallSpectralFlatness ==
    /\ op = "none"
    /\ op' = "spectralFlatness"
    /\ ret' = spectralFlatness(signal)
    /\ UNCHANGED <<signal, cutoffFreq, alpha, featVars, appVars>>

Next ==
    \/ CallFFT
    \/ CallPowerSpectrum
    \/ CallPreEmphasis
    \/ CallLowPassFilter
    \/ CallHighPassFilter
    \/ CallSpectralCentroid
    \/ CallSpectralFlatness

Spec == Init /\ [][Next]_vars

(***************************************************************************)
(* AudioProcessor.frame (signalProcessing.ts 312-336).  A 1-D tensor is a  *)
(* sequence of samples, a 2-D tensor a sequence of rows.                   *)
(***************************************************************************)
Min(a, b) == IF a < b THEN a ELSE b

\* t.slice([start], [size])
slice1d(t, start, size) == [j \in 1..size |-> t[start + j]]

\* tf.pad(t, [[before, after]]): zeros on both sides
pad(t, before, after) ==
    [j \in 1..before |-> 0] \o t \o [j \in 1..after |-> 0]

\* frameBody with the padding put in front of the samples
frameBody_PadLeft(sig, start) ==
    LET end == Min(start + frameLength, Len(sig))
    IN  IF end - start < frameLength
        THEN pad(slice1d(sig, start, end - start), frameLength - (end - start), 0)
        ELSE slice1d(sig, start, frameLength)

\* the body of the while loop, lines 318-328: the frame starting at start
frameBody(sig, start) ==
    LET end == Min(start + frameLength, Len(sig))
    IN  IF end - start < frameLength
        THEN pad(slice1d(sig, start, end - start), 0, frameLength - (end - start))
        ELSE slice1d(sig, start, frameLength)

\* the while loop, lines 317-332: the frames pushed from offset start on
RECURSIVE frameLoop(_, _)
frameLoop(sig, start) ==
    IF start < Len(sig)
    THEN <<frameBody(sig, start)>> \o frameLoop(sig, start + frameStep)
    ELSE <<>>

StackError == "Pass at least one tensor to tf.stack"

\* tf.stack rejects an empty list of tensors
frame(sig) ==
    LET pushed == frameLoop(sig, 0)
    IN  IF pushed = <<>> THEN Throw(StackError) ELSE Return(pushed)

(***************************************************************************)
(* AudioProcessor.computeLFCC and dct (signalProcessing.ts 338-376).       *)
(* The floating-point value of a row is kept as the expression that        *)
(* produced it; its width (last dimension of the tensor) is computed.      *)
(***************************************************************************)
hammingWindow(n) == [op |-> "hammingWindow", n |-> n]

\* frames.mul(hammingWindow): the window is broadcast over the rows
windowedFrames(frms) ==
    [j \in 1..Len(frms) |->
        [width |-> Len(frms[j]),
         expr |-> [op |-> "mul", arg |-> frms[j], by |-> hammingWindow(frameLength)]]]

\* tf.spectral.rfft(x) without fftLength: transform of the rows as they are,
\* floor(width / 2) + 1 complex bins per row
rfft(x) ==
    [j \in 1..Len(x) |->
        [width |-> x[j].width \div 2 + 1,
         expr |-> [op |-> "rfft", arg |-> x[j].expr, n |-> x[j].width]]]

\* an element-wise tensor method (abs, square, div, add, log)
elementWise(x, name, c) ==
    [j \in 1..Len(x) |->
        [width |-> x[j].width,
         expr |-> [op |-> name, arg |-> x[j].expr, by |-> c]]]

\* lines 345-346
lfccPowerSpectrum(frms) ==
    elementWise(elementWise(elementWise(rfft(windowedFrames(frms)),
        "abs", ""), "square", ""), "div", ToString(fftSize))

\* dct with the cosine matrix sized by the number of rows of the batch
dct_MatrixPerBatch(x) ==
    LET numFrames == Len(x)
        numBins == x[1].width
        dctMatrix == [op |-> "dctMatrix", n |-> numFrames]
    IN  [j \in 1..numFrames |->
            [width |-> numBins,
             expr |-> [op |-> "matMul", arg |-> x[j].expr, by |-> dctMatrix]]]

\* dct, lines 359-376: x times the numBins x numBins cosine matrix
dct(x) ==
    LET numFrames == Len(x)
        numBins == x[1].width
        dctMatrix == [op |-> "dctMatrix", n |-> numBins]
    IN  [j \in 1..numFrames |->
            [width |-> numBins,
             expr |-> [op |-> "matMul", arg |-> x[j].expr, by |-> dctMatrix]]]

\* t.slice([0, 0], [-1, size])
sliceCols(x, size) ==
    [j \in 1..Len(x) |->
        [width |-> size,
         expr |-> [op |-> "slice", arg |-> x[j].expr, n |-> size]]]

\* computeLFCC taking the logarithm of the power spectrum itself
computeLFCC_NoEpsilon(frms) ==
    LET logPowerSpectrum == elementWise(lfccPowerSpectrum(frms), "log", "")
    IN  sliceCols(dct(logPowerSpectrum), numCoeffs)

computeLFCC(frms) ==
    LET logPowerSpectrum ==
            elementWise(elementWise(lfccPowerSpectrum(frms), "add", "1e-6"), "log", "")
    IN  sliceCols(dct(logPowerSpectrum), numCoeffs)

\* What the operations of lines 342-355 guarantee about every element of a
\* row, in single precision: "zero", "positive" (finite, > 0), "nonneg"
\* (finite, >= 0), "finite", or "nonfinite" (may be NaN or +-Infinity).
RECURSIVE valueClass(_)
valueClass(e) ==
    IF e.op = "mul"
    THEN IF \A s \in 1..Len(e.arg) : e.arg[s] = 0 THEN "zero" ELSE "finite"
    ELSE LET a == valueClass(e.arg)
         IN  CASE a = "nonfinite" -> "nonfinite"
               [] e.op \in {"rfft", "div", "slice"} -> a
               [] e.op \in {"abs", "square"} -> IF a = "finite" THEN "nonneg" ELSE a
               [] e.op = "add" -> IF a = "finite" THEN "finite" ELSE "positive"
               \* Math.log: -Infinity at 0, NaN below 0
               [] e.op = "log" -> IF a = "positive" THEN "finite" ELSE "nonfinite"
               [] e.op = "matMul" -> "finite"

(***************************************************************************)
(* AudioProcessor.extractFeatures (signalProcessing.ts 281-310).           *)
(***************************************************************************)
\* frames.slice([start, 0], [size, -1])
sliceRows(t, start, size) == [j \in 1..size |-> t[start + j]]

\* batchLFCC with every batch sliced from row 0
batchLFCC_FromRowZero(frms, bs, start) ==
    computeLFCC(sliceRows(frms, 0, Min(bs, Len(frms) - start)))

\* one iteration of the batch loop, lines 292-294, with batch size bs
batchLFCC(frms, bs, start) ==
    computeLFCC(sliceRows(frms, start, Min(bs, Len(frms) - start)))

\* tf.concat(tensors, 0)
RECURSIVE concat(_)
concat(ts) == IF ts = <<>> THEN <<>> ELSE Head(ts) \o concat(Tail(ts))

Wave(len, p) == [j \in 1..len |-> (((j - 1) * p) % 7) + 1]

WaveLengths == {q * frameStep + r : q \in 0..MaxSteps, r \in Offsets}

\* one second of silence at 16 kHz
Silence == [j \in 1..16000 |-> 0]

\* waveforms of more than two batches of frames
LongWaveforms ==
    {Wave(2 * batchSize * frameStep + r, p) : r \in Offsets, p \in Patterns}
        \cup {Silence}

Waveforms == {Wave(len, p) : len \in WaveLengths, p \in Patterns} \cup LongWaveforms

\* the names of the tensors extractFeatures allocates
SignalTensor == <<"signalTensor", 0>>
FramesTensor == <<"frames", 0>>
BatchTensor(b) == <<"batch", b>>
BatchLFCCTensor(b) == <<"batchLFCC", b>>
LfccTensor == <<"lfcc", 0>>

\* t.dispose() for every tensor of ts
dispose(held, ts) ==
    [t \in DOMAIN held |-> IF t \in ts THEN held[t] + 1 ELSE held[t]]

CallExtractFeatures(w, p) ==
    /\ audioData = w
    /\ self = p
    /\ pc = "called"
    /\ frames = <<>>
    /\ i = 0
    /\ lfccFeatures = <<>>
    /\ lfccArray = <<>>
    /\ error = ""
    /\ tensors = <<>>

InitFeatures ==
    /\ signal = <<>>
    /\ cutoffFreq = <<0, 1, 0>>
    /\ alpha = <<97, 100>>
    /\ op = "none"
    /\ ret = NoCall
    /\ \E w \in Waveforms : CallExtractFeatures(w, 1)
    /\ dctMatrices = 0
    /\ processors = [p \in Processors |-> NewProcessor]
    /\ history = {}
    /\ calls = 1
    /\ AppIdle

\* lines 282-289: framing succeeds; frame's own slices are released by tidy
FrameSignal ==
    /\ pc = "called"
    /\ frame(audioData).threw = ""
    /\ frames' = frame(audioData).value
    /\ i' = 0
    /\ lfccFeatures' = <<>>
    /\ pc' = "batches"
    /\ tensors' = (SignalTensor :> 0) @@ (FramesTensor :> 0)
    /\ UNCHANGED <<appVars, dspVars, audioData, lfccArray, error, dctMatrices, procVars>>

\* lines 282-285: framing throws after the signal tensor was created,
\* the promise rejects
FrameFails ==
    /\ pc = "called"
    /\ frame(audioData).threw # ""
    /\ error' = frame(audioData).threw
    /\ pc' = "rejected"
    /\ tensors' = (SignalTensor :> 0)
    /\ UNCHANGED <<appVars, dspVars, audioData, frames, i, lfccFeatures, lfccArray,
                   dctMatrices, procVars>>

\* ProcessBatch lowering the instance's batchSize field after a full batch
ProcessBatch_AdaptsBatchSize ==
    /\ pc = "batches"
    /\ i < Len(frames)
    /\ lfccFeatures' =
           Append(lfccFeatures, batchLFCC(frames, processors[self].batchSize, i))
    /\ i' = i + processors[self].batchSize
    /\ dctMatrices' = dctMatrices + 1
    /\ tensors' = tensors @@ (BatchTensor(Len(lfccFeatures) + 1) :> 1)
                          @@ (BatchLFCCTensor(Len(lfccFeatures) + 1) :> 0)
    /\ processors' = [processors EXCEPT ![self].batchSize = 16]
    /\ UNCHANGED <<appVars, dspVars, audioData, pc, frames, lfccArray, error,
                   self, history, calls>>

\* lines 291-297: one batch, up to the next evaluation of the loop test;
\* computeLFCC calls dct once, which builds its cosine matrix (365-371)
ProcessBatch ==
    /\ pc = "batches"
    /\ i < Len(frames)
    /\ lfccFeatures' =
           Append(lfccFeatures, batchLFCC(frames, processors[self].batchSize, i))
    /\ i' = i + processors[self].batchSize
    /\ dctMatrices' = dctMatrices + 1
    /\ tensors' = tensors @@ (BatchTensor(Len(lfccFeatures) + 1) :> 1)
                          @@ (BatchLFCCTensor(Len(lfccFeatures) + 1) :> 0)
    /\ UNCHANGED <<appVars, dspVars, audioData, pc, frames, lfccArray, error, procVars>>

\* lines 299-309: concatenate, dispose and resolve
ConcatBatches ==
    /\ pc = "batches"
    /\ ~(i < Len(frames))
    /\ lfccArray' = concat(lfccFeatures)
    /\ pc' = "resolved"
    /\ tensors' = dispose(tensors @@ (LfccTensor :> 0),
                          {SignalTensor, FramesTensor, LfccTensor}
                              \cup {BatchLFCCTensor(b) : b \in 1..Len(lfccFeatures)})
    /\ UNCHANGED <<appVars, dspVars, audioData, frames, i, lfccFeatures, error,
                   dctMatrices, procVars>>

NextFeatures ==
    \/ FrameSignal
    \/ FrameFails
    \/ ProcessBatch
    \/ ConcatBatches

SpecFeatures == InitFeatures /\ [][NextFeatures]_vars

(***************************************************************************)
(* Several extractFeatures invocations in a row, on either instance.       *)
(***************************************************************************)
RepeatWaveforms == {Wave(0, 1), Wave(1, 1), Wave(161, 1), Wave(161, 3)}

InitRepeat ==
    /\ signal = <<>>
    /\ cutoffFreq = <<0, 1, 0>>
    /\ alpha = <<97, 100>>
    /\ op = "none"
    /\ ret = NoCall
    /\ \E w \in RepeatWaveforms, p \in Processors : CallExtractFeatures(w, p)
    /\ dctMatrices = 0
    /\ processors = [p \in Processors |-> NewProcessor]
    /\ history = {}
    /\ calls = 1
    /\ AppIdle

\* the invocation has ended; extractFeatures is called again
NewCall ==
    /\ pc \in {"resolved", "rejected"}
    /\ calls < MaxCalls
    /\ history' = history \cup
           {[wave |-> audioData, processor |-> self,
             error |-> error, matrix |-> lfccArray]}
    /\ calls' = calls + 1
    /\ \E w \in RepeatWaveforms, p \in Processors :
           /\ audioData' = w
           /\ self' = p
    /\ pc' = "called"
    /\ frames' = <<>>
    /\ i' = 0
    /\ lfccFeatures' = <<>>
    /\ lfccArray' = <<>>
    /\ error' = ""
    /\ tensors' = <<>>
    /\ UNCHANGED <<appVars, dspVars, dctMatrices, processors>>

NextRepeat ==
    \/ FrameSignal
    \/ FrameFails
    \/ ProcessBatch
    \/ ConcatBatches
    \/ NewCall

SpecRepeat == InitRepeat /\ [][NextRepeat]_vars

(***************************************************************************)
(* analyzeVoice (voiceAnalysisService.ts 28-124).                          *)
(***************************************************************************)
retries == 2

\* everything analyzeVoice leaves alone
othersOfAnalysis == <<dspVars, featVars, recorder, service, blockList, context>>

\* what RNFS.stat finds at audioPath
FileStats == {"missing", "small", "ok"}

\* what one fetch and the reading of its response come to
Responses == {"networkError", "status503", "notOk", "invalidJson",
              "unexpectedFormat", "combinedScore", "directScores"}

WellFormed == {"combinedScore", "directScores"}

RecordingFailed == "Recording failed. Please ensure microphone access is enabled."
UnexpectedError == "Unexpected error in analysis"

\* the error the try block of lines 53-103 throws for a response
errorOf(r) ==
    CASE r = "networkError" -> "Network request failed"
      [] r = "status503" -> "Analysis temporarily unavailable. Please try again shortly."
      [] r = "notOk" -> "API error"
      [] r = "invalidJson" -> "JSON Parse error"
      [] r = "unexpectedFormat" -> " Unexpected analysis response format"

InitAnalyze ==
    /\ DspIdle
    /\ FeaturesIdle
    /\ analysis = [pc |-> "stat", fileOk |-> FALSE, attempt |-> 0, requests |-> 0,
                   failures |-> <<>>, result |-> "", error |-> ""]
    /\ recorder = NewRecorder
    /\ service = NewService("ios")
    /\ blockList = EmptyBlockList
    /\ context = NewContext

\* lines 31-39: a missing file and a file under 1000 bytes both end in the
\* error of line 38
CheckFile ==
    /\ analysis.pc = "stat"
    /\ \E f \in FileStats :
           analysis' = IF f = "ok"
                       THEN [analysis EXCEPT !.pc = "loop", !.fileOk = TRUE]
                       ELSE [analysis EXCEPT !.pc = "rejected", !.error = RecordingFailed]
    /\ UNCHANGED othersOfAnalysis

\* line 52: the loop test; lines 55-69: the delay of a retry and the fetch;
\* lines 118-119: the statement after the loop
SendRequest ==
    /\ analysis.pc = "loop"
    /\ analysis' = IF analysis.attempt <= retries
                   THEN [analysis EXCEPT !.pc = "fetching", !.requests = @ + 1]
                   ELSE [analysis EXCEPT !.pc = "rejected", !.error = UnexpectedError]
    /\ UNCHANGED othersOfAnalysis

\* lines 81-100: a response in one of the two score formats is returned
ResponseOk ==
    /\ analysis.pc = "fetching"
    /\ \E r \in WellFormed :
           analysis' = [analysis EXCEPT !.pc = "resolved", !.result = r]
    /\ UNCHANGED othersOfAnalysis

\* the catch block of lines 105-115 that never rethrows
AttemptFails_NoRethrow(a, e) ==
    [a EXCEPT !.failures = Append(@, e), !.attempt = @ + 1, !.pc = "loop"]

\* the catch block of lines 105-115, lastError = e
AttemptFails(a, e) ==
    IF a.attempt = retries
    THEN [a EXCEPT !.failures = Append(@, e), !.pc = "rejected", !.error = e]
    ELSE [a EXCEPT !.failures = Append(@, e), !.attempt = @ + 1, !.pc = "loop"]

\* lines 62-103: fetch rejects, the status is 503 or not ok, json() rejects,
\* or the body has neither score format
ResponseFails ==
    /\ analysis.pc = "fetching"
    /\ \E r \in Responses \ WellFormed :
           analysis' = AttemptFails(analysis, errorOf(r))
    /\ UNCHANGED othersOfAnalysis

NextAnalyze ==
    \/ CheckFile
    \/ SendRequest
    \/ ResponseOk
    \/ ResponseFails

SpecAnalyze == InitAnalyze /\ [][NextAnalyze]_vars

(***************************************************************************)
(* AudioRecorderImpl (backgroundService.ts 389-572).  Every await is a     *)
(* point where other calls and timers run.  nativeActive: a native         *)
(* recording was started and stopRecording has not been invoked since.     *)
(***************************************************************************)
othersOfRecorder == <<dspVars, featVars, analysis, service, blockList, context>>

\* lines 398-407: start() tests the flag and asks for the permission
StartCall ==
    \E s \in 1..MaxStarts :
        /\ recorder.starts[s] = "idle"
        /\ recorder' = [recorder EXCEPT !.starts[s] =
                           IF recorder.isRecordingFlag THEN "true" ELSE "permission"]
        /\ UNCHANGED othersOfRecorder

\* lines 407-414: the permission is granted or not; getFilePath is called
PermissionResolves ==
    \E s \in 1..MaxStarts, granted \in BOOLEAN :
        /\ recorder.starts[s] = "permission"
        /\ recorder' = [recorder EXCEPT !.starts[s] = IF granted THEN "path" ELSE "false"]
        /\ UNCHANGED othersOfRecorder

\* lines 414-437: getFilePath settles; the native startRecording is invoked
\* and starts a recording or fails
InvokeStartRecording ==
    \E s \in 1..MaxStarts, outcome \in {"pathError", "started", "nativeError"} :
        /\ recorder.starts[s] = "path"
        /\ recorder' =
               IF outcome = "pathError"
               THEN [recorder EXCEPT !.starts[s] = "failing"]
               ELSE [recorder EXCEPT
                        !.starts[s] = IF outcome = "started" THEN "starting" ELSE "failing",
                        !.startedWhileActive = @ \/ recorder.nativeActive,
                        !.nativeActive = @ \/ outcome = "started"]
        /\ UNCHANGED othersOfRecorder

\* lines 439-450: the native call resolved; the safety timer is set
StartResolves ==
    \E s \in 1..MaxStarts :
        /\ recorder.starts[s] = "starting"
        /\ recorder' = [recorder EXCEPT !.starts[s] = "true",
                                        !.isRecordingFlag = TRUE,
                                        !.recordingTimeout = s,
                                        !.timers = @ \cup {s}]
        /\ UNCHANGED othersOfRecorder

\* lines 451-456: the catch block of start()
StartRejects ==
    \E s \in 1..MaxStarts :
        /\ recorder.starts[s] = "failing"
        /\ recorder' = [recorder EXCEPT !.starts[s] = "false", !.isRecordingFlag = FALSE]
        /\ UNCHANGED othersOfRecorder

\* lines 463-481: stop() up to its await of the native stopRecording
stopBody(r) ==
    IF ~r.isRecordingFlag THEN r
    ELSE [r EXCEPT !.timers = @ \ {r.recordingTimeout},
                   !.recordingTimeout = 0,
                   !.nativeActive = FALSE,
                   !.stopping = @ + 1]

\* a client calls stop()
StopCall ==
    /\ recorder.stopCalls < MaxStops
    /\ recorder' = stopBody([recorder EXCEPT !.stopCalls = @ + 1])
    /\ UNCHANGED othersOfRecorder

\* lines 443-448: a safety timer fires after maxRecordingDuration
TimerFires ==
    \E t \in recorder.timers :
        /\ recorder' = LET fired == [recorder EXCEPT !.timers = @ \ {t}]
                       IN  IF fired.isRecordingFlag THEN stopBody(fired) ELSE fired
        /\ UNCHANGED othersOfRecorder

\* lines 483 and 495: the native stopRecording resolved or rejected
StopSettles ==
    /\ recorder.stopping > 0
    /\ recorder' = [recorder EXCEPT !.stopping = @ - 1, !.isRecordingFlag = FALSE]
    /\ UNCHANGED othersOfRecorder

InitRecorder ==
    /\ DspIdle
    /\ FeaturesIdle
    /\ AnalysisIdle
    /\ recorder = NewRecorder
    /\ service = NewService("ios")
    /\ blockList = EmptyBlockList
    /\ context = NewContext

NextRecorder ==
    \/ StartCall
    \/ PermissionResolves
    \/ InvokeStartRecording
    \/ StartResolves
    \/ StartRejects
    \/ StopCall
    \/ TimerFires
    \/ StopSettles

SpecRecorder == InitRecorder /\ [][NextRecorder]_vars

(***************************************************************************)
(* The background service (backgroundService.ts 74-340) and the            *)
(* CallDetector wrapper it constructs (CallDetectionWrapper.ts 22-107).    *)
(* service.stopped records that stopBackgroundService has returned true    *)
(* while no initBackgroundService call was in flight, and that             *)
(* initBackgroundService has not been called since.                        *)
(***************************************************************************)
othersOfService == <<dspVars, featVars, analysis, recorder, blockList, context>>

Platforms == {"ios", "android"}

NotInitialized == "CallDetector not initialized"
ModuleNotFound == "CallDetection module not found"

\* CallDetectionWrapper.ts 28-44: the constructor returns while
\* initializeDetector is suspended at its await import(...)
newWrapper == [detector |-> FALSE, initPending |-> TRUE, listening |-> FALSE]

\* CallDetectionWrapper.ts 78-91
startListener(svc, w) ==
    IF svc.wrappers[w].detector
    THEN [svc EXCEPT !.wrappers[w].listening = TRUE]
    ELSE [svc EXCEPT !.errors = Append(@, NotInitialized)]

\* backgroundService.ts 234-263
startCallDetection(svc) ==
    IF svc.callDetectorInstance # 0 THEN svc
    ELSE startListener([svc EXCEPT !.wrappers = Append(@, newWrapper),
                                   !.callDetectorInstance = Len(svc.wrappers) + 1],
                       Len(svc.wrappers) + 1)

\* startCallDetection constructs no wrapper, or one more fits the bound
canConstruct(svc) == svc.callDetectorInstance # 0 \/ Len(svc.wrappers) < MaxDetectors

\* backgroundService.ts 135-138 with CallDetectionWrapper.ts 64-76
disposeDetector(svc) ==
    IF svc.callDetectorInstance = 0 THEN svc
    ELSE [svc EXCEPT !.wrappers[svc.callDetectorInstance].detector = FALSE,
                     !.wrappers[svc.callDetectorInstance].listening = FALSE,
                     !.callDetectorInstance = 0]

InitService ==
    /\ DspIdle
    /\ FeaturesIdle
    /\ AnalysisIdle
    /\ recorder = NewRecorder
    /\ \E platform \in Platforms : service = NewService(platform)
    /\ blockList = EmptyBlockList
    /\ context = NewContext

\* CallDetectionWrapper.ts 44-61: the dynamic import settles
ImportSettles ==
    \E w \in 1..Len(service.wrappers), found \in BOOLEAN :
        /\ service.wrappers[w].initPending
        /\ service' = IF found
                      THEN [service EXCEPT !.wrappers[w].initPending = FALSE,
                                           !.wrappers[w].detector = TRUE]
                      ELSE [service EXCEPT !.wrappers[w].initPending = FALSE,
                                           !.errors = Append(@, ModuleNotFound)]
        /\ UNCHANGED othersOfService

\* lines 86-107: the checks of initBackgroundService up to its first await
InitCall ==
    /\ service.initPc = "idle"
    /\ service.inits < MaxInits
    /\ \E loaded \in BOOLEAN :
           service' = [service EXCEPT
                          !.inits = @ + 1,
                          !.stopped = FALSE,
                          !.initPc = IF loaded /\ ~service.isServiceRunning
                                     THEN "permissions" ELSE "idle"]
    /\ UNCHANGED othersOfService

\* lines 107-112 and 163-192: requestPermissions settles
InitPermissions ==
    /\ service.initPc = "permissions"
    /\ \E ok \in BOOLEAN :
           service' = [service EXCEPT
                          !.initPc = IF ~ok THEN "idle"
                                     ELSE IF service.platform = "ios" THEN "configure"
                                     ELSE "detection"]
    /\ UNCHANGED othersOfService

\* lines 111 and 197-229: BackgroundFetch.configure registers the task
InitConfigure ==
    /\ service.initPc = "configure"
    /\ \E ok \in BOOLEAN :
           service' = IF ok
                      THEN [service EXCEPT !.initPc = "detection", !.fetchConfigured = TRUE]
                      ELSE [service EXCEPT !.initPc = "idle"]
    /\ UNCHANGED othersOfService

\* line 115
InitStartDetection ==
    /\ service.initPc = "detection"
    /\ canConstruct(service)
    /\ service' = [startCallDetection(service) EXCEPT !.initPc = "finish"]
    /\ UNCHANGED othersOfService

\* lines 118-122
InitFinish ==
    /\ service.initPc = "finish"
    /\ service' = [service EXCEPT !.initPc = "idle", !.subscribed = TRUE,
                                  !.isServiceRunning = TRUE]
    /\ UNCHANGED othersOfService

\* lines 132-153; BackgroundTimer.clearTimeout removes the callback of the
\* interval whose id it is given
StopBackgroundService ==
    /\ service' = [disposeDetector(service) EXCEPT
                      !.backgroundTaskId = IF service.platform = "android" THEN 0 ELSE @,
                      !.subscribed = FALSE,
                      !.isServiceRunning = FALSE,
                      !.stopped = (service.initPc = "idle")]
    /\ UNCHANGED othersOfService

\* lines 299-333: handleAppStateChange, ensureBackgroundRunning
AppStateChange ==
    /\ service.subscribed
    /\ \E nextAppState \in {"active", "background"} :
           /\ nextAppState = "active" => canConstruct(service)
           /\ service' =
                  IF nextAppState = "active" THEN startCallDetection(service)
                  ELSE IF service.platform = "android" /\ service.backgroundTaskId = 0
                  THEN [service EXCEPT !.backgroundTaskId = 1]
                  ELSE service
    /\ UNCHANGED othersOfService

\* lines 324-331: the Android heartbeat interval ticks
HeartbeatTick ==
    /\ service.backgroundTaskId # 0
    /\ canConstruct(service)
    /\ service' = startCallDetection(service)
    /\ UNCHANGED othersOfService

\* lines 208-218: the operating system runs the background-fetch task
BackgroundFetchTask ==
    /\ service.fetchConfigured
    /\ canConstruct(service)
    /\ service' = startCallDetection(service)
    /\ UNCHANGED othersOfService

NextService ==
    \/ ImportSettles
    \/ InitCall
    \/ InitPermissions
    \/ InitConfigure
    \/ InitStartDetection
    \/ InitFinish
    \/ StopBackgroundService
    \/ AppStateChange
    \/ HeartbeatTick
    \/ BackgroundFetchTask

SpecService == InitService /\ [][NextService]_vars

(***************************************************************************)
(* The block list (unnamed/part_010).  Every call reads the stored list,   *)
(* changes its own copy and writes the copy back; the storage is touched   *)
(* when the read or the write settles.  blockList.resolved holds the       *)
(* numbers p for which addToBlockList(p) has resolved true and             *)
(* removeFromBlockList(p) has not been called since.                       *)
(***************************************************************************)
othersOfBlockList == <<dspVars, featVars, analysis, recorder, service, context>>

PhoneNumbers == {"p", "q"}

\* blockList.includes(phoneNumber)
includes(list, n) == \E j \in 1..Len(list) : list[j] = n

\* blockList.filter(num => num !== phoneNumber)
RECURSIVE without(_, _)
without(list, n) ==
    IF list = <<>> THEN <<>>
    ELSE IF Head(list) = n THEN without(Tail(list), n)
    ELSE <<Head(list)>> \o without(Tail(list), n)

InitBlockList ==
    /\ DspIdle
    /\ FeaturesIdle
    /\ AnalysisIdle
    /\ recorder = NewRecorder
    /\ service = NewService("ios")
    /\ blockList = EmptyBlockList
    /\ context = NewContext

\* lines 8-15: addToBlockList is called and awaits getBlockList
CallAdd ==
    \E o \in 1..MaxOps, n \in PhoneNumbers :
        /\ blockList.ops[o].pc = "idle"
        /\ blockList' = [blockList EXCEPT
                            !.ops[o] = [kind |-> "add", number |-> n, pc |-> "reading",
                                        list |-> <<>>]]
        /\ UNCHANGED othersOfBlockList

\* lines 34-41: removeFromBlockList is called and awaits getBlockList
CallRemove ==
    \E o \in 1..MaxOps, n \in PhoneNumbers :
        /\ blockList.ops[o].pc = "idle"
        /\ blockList' = [blockList EXCEPT
                            !.ops[o] = [kind |-> "remove", number |-> n, pc |-> "reading",
                                        list |-> <<>>],
                            !.resolved = @ \ {n}]
        /\ UNCHANGED othersOfBlockList

\* the copy a call continues with once getBlockList has settled (lines
\* 56-82: the stored list, or [] when getItem rejects)
afterRead(call, stored) ==
    IF call.kind = "remove"
    THEN [call EXCEPT !.list = without(stored, call.number), !.pc = "writing"]
    ELSE IF includes(stored, call.number)
    THEN [call EXCEPT !.list = stored, !.pc = "true"]
    ELSE [call EXCEPT !.list = Append(stored, call.number), !.pc = "writing"]

\* lines 15-18, 20-23 and 41-43: getBlockList settles; the call changes its
\* copy and awaits setItem, or finds the number present and returns true
ReadSettles ==
    \E o \in 1..MaxOps, ok \in BOOLEAN :
        /\ blockList.ops[o].pc = "reading"
        /\ LET call == afterRead(blockList.ops[o], IF ok THEN blockList.stored ELSE <<>>)
           IN  blockList' = [blockList EXCEPT
                                !.ops[o] = call,
                                !.resolved = IF call.pc = "true"
                                             THEN @ \cup {call.number} ELSE @]
        /\ UNCHANGED othersOfBlockList

\* lines 18-23 and 43-45: setItem stored the copy of the call
WriteResolves ==
    \E o \in 1..MaxOps :
        /\ blockList.ops[o].pc = "writing"
        /\ blockList' = [blockList EXCEPT
                            !.stored = blockList.ops[o].list,
                            !.ops[o].pc = "true",
                            !.resolved = IF blockList.ops[o].kind = "add"
                                         THEN @ \cup {blockList.ops[o].number} ELSE @]
        /\ UNCHANGED othersOfBlockList

\* lines 24-28 and 46-50: setItem rejected
WriteRejects ==
    \E o \in 1..MaxOps :
        /\ blockList.ops[o].pc = "writing"
        /\ blockList' = [blockList EXCEPT !.ops[o].pc = "false"]
        /\ UNCHANGED othersOfBlockList

NextBlockList ==
    \/ CallAdd
    \/ CallRemove
    \/ ReadSettles
    \/ WriteResolves
    \/ WriteRejects

SpecBlockList == InitBlockList /\ [][NextBlockList]_vars

(***************************************************************************)
(* analyzeIncomingCall and analyzeCall of CallDetectionProvider            *)
(* (CallDetectionContext.tsx 188-361).  A state update takes effect when   *)
(* it is made.                                                             *)
(***************************************************************************)
othersOfContext == <<dspVars, featVars, analysis, recorder, service, blockList>>

InitContext ==
    /\ DspIdle
    /\ FeaturesIdle
    /\ AnalysisIdle
    /\ recorder = NewRecorder
    /\ service = NewService("ios")
    /\ blockList = EmptyBlockList
    /\ context = NewContext

\* the finally blocks of lines 306-308 and 358-360
finish(ctx, c) ==
    [ctx EXCEPT !.invocations[c].pc = "returned", !.isAnalyzing = FALSE]

\* lines 212-224: analyzeIncomingCall up to its await of RNFS.writeFile
AnalyzeIncomingCall ==
    \E c \in 1..MaxAnalyses :
        /\ context.invocations[c].pc = "idle"
        /\ context' = [context EXCEPT
                          !.invocations[c] = [kind |-> "analyzeIncomingCall",
                                              pc |-> "writeFile"],
                          !.isAnalyzing = TRUE]
        /\ UNCHANGED othersOfContext

\* lines 224-233: the temporary file is written, or the failure is turned
\* into the fallback result (lines 225-228, 282-308)
WriteFileSettles ==
    \E c \in 1..MaxAnalyses, ok \in BOOLEAN :
        /\ context.invocations[c].pc = "writeFile"
        /\ context' = IF ok
                      THEN [context EXCEPT !.invocations[c].pc = "analyzeVoice"]
                      ELSE finish(context, c)
        /\ UNCHANGED othersOfContext

\* lines 233-246: analyzeVoice resolves or rejects; the file is looked up
AnalyzeVoiceSettles ==
    \E c \in 1..MaxAnalyses :
        /\ context.invocations[c].pc = "analyzeVoice"
        /\ context' = [context EXCEPT !.invocations[c].pc = "cleanup"]
        /\ UNCHANGED othersOfContext

\* lines 237-308: the file is removed; the call returns its result or the
\* fallback result
CleanupSettles ==
    \E c \in 1..MaxAnalyses :
        /\ context.invocations[c].pc = "cleanup"
        /\ context' = finish(context, c)
        /\ UNCHANGED othersOfContext

\* lines 312-322: analyzeCall up to its await of getContactName
AnalyzeCall ==
    \E c \in 1..MaxAnalyses :
        /\ context.invocations[c].pc = "idle"
        /\ context' = [context EXCEPT
                          !.invocations[c] = [kind |-> "analyzeCall",
                                              pc |-> "getContactName"],
                          !.isAnalyzing = TRUE]
        /\ UNCHANGED othersOfContext

\* lines 322-341: the contact lookup settles; addCallRecord is awaited
ContactNameSettles ==
    \E c \in 1..MaxAnalyses :
        /\ context.invocations[c].pc = "getContactName"
        /\ context' = [context EXCEPT !.invocations[c].pc = "addCallRecord"]
        /\ UNCHANGED othersOfContext

\* lines 341-360: addCallRecord settles and analyzeCall returns
AddCallRecordSettles ==
    \E c \in 1..MaxAnalyses :
        /\ context.invocations[c].pc = "addCallRecord"
        /\ context' = finish(context, c)
        /\ UNCHANGED othersOfContext

NextContext ==
    \/ AnalyzeIncomingCall
    \/ WriteFileSettles
    \/ AnalyzeVoiceSettles
    \/ CleanupSettles
    \/ AnalyzeCall
    \/ ContactNameSettles
    \/ AddCallRecordSettles

SpecContext == InitContext /\ [][NextContext]_vars

(***************************************************************************)
(* Properties.                                                             *)
(***************************************************************************)
IsPowerOfTwo(n) == \E e \in 0..30 : n = 2 ^ e

CeilDiv(a, b) == (a + b - 1) \div b

\* C1: FFT throws the precondition error for every length that is not a
\* power of two (0 included) and does not throw for a power of two.
C1_ThrowsIffNotPowerOfTwo ==
    op = "FFT" =>
        IF IsPowerOfTwo(Len(signal)) THEN ret.threw = ""
        ELSE ret.threw = PreconditionError

\* the k-th power of exp(-2*pi*i/4) as <<re, im>>
Unit4(k) ==
    CASE k % 4 = 0 -> <<1, 0>>
      [] k % 4 = 1 -> <<0, -1>>
      [] k % 4 = 2 -> <<-1, 0>>
      [] k % 4 = 3 -> <<0, 1>>

RECURSIVE DFTSum(_, _, _, _)
DFTSum(x, bin, part, m) ==
    IF m = 0 THEN 0
    ELSE x[m].n * Unit4((4 \div Len(x)) * bin * (m - 1))[part]
         + DFTSum(x, bin, part, m - 1)

\* component part (1 real, 2 imaginary) of bin of the DFT of x, Len(x) | 4
DFT(x, bin, part) == Num(DFTSum(x, bin, part, Len(x)))

\* C2: for N in {2, 4} FFT returns the discrete Fourier transform of the
\* input as interleaved (re, im) pairs, every component a defined number.
C2_FFTIsDFT ==
    (op = "FFT" /\ Len(signal) \in {2, 4}) =>
        /\ ret.threw = ""
        /\ \A b \in 0..(Len(signal) - 1) :
              /\ Get(ret.value, 2 * b) = DFT(signal, b, 1)
              /\ Get(ret.value, 2 * b + 1) = DFT(signal, b, 2)

\* C3: for every power-of-two N >= 1, the base case N = 1 included, the
\* spectrum FFT returns has 2N entries, so entries 2k and 2k+1 exist.
C3_SpectrumHas2NEntries ==
    (op = "FFT" /\ IsPowerOfTwo(Len(signal))) =>
        /\ ret.threw = ""
        /\ Len(ret.value) = 2 * Len(signal)

\* C4: for every waveform length L >= 0, frame produces exactly
\* ceil(L / frameStep) frames, each of exactly frameLength samples.
C4_FrameCount ==
    pc \in {"batches", "resolved", "rejected"} =>
        /\ pc # "rejected"
        /\ Len(frames) = CeilDiv(Len(audioData), frameStep)
        /\ \A j \in 1..Len(frames) : Len(frames[j]) = frameLength

\* C5: frame j (counted from 0) starts at offset j * frameStep, inside the
\* signal; its sample s is signal[j * frameStep + s] where that index is
\* inside the signal and 0 otherwise.
C5_FrameContents ==
    pc \in {"batches", "resolved"} =>
        \A j \in 1..Len(frames) :
            /\ (j - 1) * frameStep < Len(audioData)
            /\ Len(frames[j]) = frameLength
            /\ \A s \in 1..frameLength :
                  frames[j][s] =
                      IF (j - 1) * frameStep + s <= Len(audioData)
                      THEN audioData[(j - 1) * frameStep + s]
                      ELSE 0

\* a resolved call with a full first frame and a zero-padded later frame
C5_Witness ==
    /\ pc = "resolved"
    /\ Len(frames) >= 3
    /\ frames[1][frameLength] # 0
    /\ frames[Len(frames)][1] # 0
    /\ frames[Len(frames)][frameLength] = 0

\* C6: for N >= 2 and every bin b in 0..N/2, powerSpectrum(signal)[b] is
\* re^2 + im^2 of bin b of FFT(signal), the Nyquist entry N/2 included.
C6_PowerIsSquaredMagnitude ==
    (op = "powerSpectrum" /\ IsPowerOfTwo(Len(signal)) /\ Len(signal) >= 2) =>
        /\ ret.threw = ""
        /\ \A b \in 0..(Len(signal) \div 2) :
              LET re == Get(FFT(signal).value, 2 * b)
                  im == Get(FFT(signal).value, 2 * b + 1)
              IN  /\ IsNumber(Get(ret.value, b))
                  /\ Get(ret.value, b) = Add(Mul(re, re), Mul(im, im))

\* C7: powerSpectrum returns N/2 + 1 values, every one a number >= 0,
\* never NaN.
C7_PowerNonNegative ==
    (op = "powerSpectrum" /\ IsPowerOfTwo(Len(signal))) =>
        /\ ret.threw = ""
        /\ Len(ret.value) = Len(signal) \div 2 + 1
        /\ \A b \in 1..Len(ret.value) :
              /\ IsNumber(ret.value[b])
              /\ ret.value[b].n >= 0

\* the filter that was called zeroes no bin of the spectrum
NoBinZeroed ==
    \A idx \in 0..(Len(signal) - 1) :
        /\ op = "lowPassFilter" => ~lowPassZeroes(idx, Len(signal), cutoffFreq)
        /\ op = "highPassFilter" => ~highPassZeroes(idx, Len(signal), cutoffFreq)

\* C8: transform, transform again, real part divided by N recovers the
\* signal sample by sample (the filters' reconstruction with no bin zeroed).
C8_RoundTrip ==
    (/\ op \in {"lowPassFilter", "highPassFilter"}
     /\ IsPowerOfTwo(Len(signal))
     /\ NoBinZeroed) =>
        /\ ret.threw = ""
        /\ ret.value = signal

\* C9: every windowed frame is zero-padded to fftSize before the transform:
\* the transform length is 512 and the power spectrum has 257 bins.
C9_PaddedToFftSize ==
    (pc \in {"batches", "resolved"} /\ lfccFeatures # <<>>) =>
        \A j \in 1..Min(i, Len(frames)) :
            /\ rfft(windowedFrames(frames))[j].expr.n = fftSize
            /\ lfccPowerSpectrum(frames)[j].width = fftSize \div 2 + 1

\* extractFeatures' batch loop and concatenation run with batch size bs
RECURSIVE batchLoop(_, _, _)
batchLoop(frms, bs, start) ==
    IF start < Len(frms)
    THEN batchLFCC(frms, bs, start) \o batchLoop(frms, bs, start + bs)
    ELSE <<>>

OtherBatchSizes == {1, 5, 64}

\* C10: the matrix computed with batch size 32 equals the one computed
\* with batch size 1 (or another split), and row j is the row frame j
\* yields when it is processed alone.
C10_BatchSizeInvariance ==
    pc = "resolved" =>
        /\ \A bs \in OtherBatchSizes : lfccArray = batchLoop(frames, bs, 0)
        /\ Len(lfccArray) = Len(frames)
        /\ \A j \in 1..Len(frames) : lfccArray[j] = computeLFCC(<<frames[j]>>)[1]

\* a resolved call that took a full batch of 32 and a shorter last batch
C10_Witness ==
    /\ pc = "resolved"
    /\ Len(lfccFeatures) = 2
    /\ Len(lfccFeatures[1]) = batchSize
    /\ Len(lfccFeatures[2]) \in 1..(batchSize - 1)

\* C11: the batches start at frames 0, 32, 64, ...; batch b holds the
\* coefficient rows of the frames 32(b-1) .. 32(b-1) + size - 1 in order, so
\* every frame is in exactly one batch, and the matrix returned has one
\* row per frame, row j being the coefficient vector of frame j.
C11_BatchesCoverFramesInOrder ==
    /\ pc \in {"batches", "resolved"} =>
          /\ i % batchSize = 0
          /\ Len(lfccFeatures) = i \div batchSize
          /\ \A b \in 1..Len(lfccFeatures) :
                /\ Len(lfccFeatures[b]) =
                       Min(batchSize, Len(frames) - (b - 1) * batchSize)
                /\ \A r \in 1..Len(lfccFeatures[b]) :
                      lfccFeatures[b][r] =
                          computeLFCC(<<frames[(b - 1) * batchSize + r]>>)[1]
    /\ pc = "resolved" =>
          /\ i >= Len(frames)
          /\ Len(lfccArray) = Len(frames)
          /\ \A j \in 1..Len(frames) :
                lfccArray[j] = computeLFCC(<<frames[j]>>)[1]

\* a resolved call of three batches whose batches start on different frames
C11_Witness ==
    /\ pc = "resolved"
    /\ Len(lfccFeatures) = 3
    /\ frames[1] # frames[batchSize + 1]
    /\ frames[1] # frames[2 * batchSize + 1]
    /\ Len(lfccArray) = 2 * batchSize + 1

C13_CosineMatrixBuiltOnce == dctMatrices <= 1

\* C14: preEmphasis completes for every length, the empty signal included,
\* and returns y of the input's length with y[0] = x[0] and
\* y[i] = x[i] - alpha * x[i-1] for i >= 1.
C14_PreEmphasis ==
    op = "preEmphasis" =>
        /\ ret.threw = ""
        /\ Len(ret.value) = Len(signal)
        /\ Len(signal) >= 1 => ret.value[1] = signal[1]
        /\ \A j \in 2..Len(signal) :
              ret.value[j] =
                  Rat(signal[j].n * alpha[2] - alpha[1] * signal[j - 1].n, alpha[2])

\* the constant signal [1, 1, 1] with alpha = 0.97 gave [1, 0.03, 0.03]
C14_Witness ==
    /\ op = "preEmphasis"
    /\ alpha = <<97, 100>>
    /\ signal = <<Num(1), Num(1), Num(1)>>
    /\ ret.value = <<Num(1), Rat(3, 100), Rat(3, 100)>>

AllZero(sig) == \A j \in 1..Len(sig) : sig[j] = Num(0)

\* C15: spectralCentroid returns exactly 0, not NaN and not an error, for
\* every all-zero signal of power-of-two length, and whenever the total
\* power it computed is not > 0.
C15_CentroidZeroWithoutPower ==
    (op = "spectralCentroid" /\ IsPowerOfTwo(Len(signal))) =>
        /\ AllZero(signal) => ret = Return(Num(0))
        /\ ~Positive(SumTo(powerSpectrum(signal).value,
                           Len(powerSpectrum(signal).value)))
              => ret = Return(Num(0))

\* spectralCentroid was applied to four zero samples
C15_Witness ==
    /\ op = "spectralCentroid"
    /\ Len(signal) = 4
    /\ AllZero(signal)
    /\ ret = Return(Num(0))

\* C16: for an all-zero frame of power-of-two length spectralFlatness
\* returns the number 0, not 1, NaN or an error.
C16_FlatnessOfSilenceIsZero ==
    (op = "spectralFlatness" /\ IsPowerOfTwo(Len(signal)) /\ AllZero(signal)) =>
        ret = Return(Num(0))

\* spectralFlatness was applied to four zero samples
C16_Witness ==
    /\ op = "spectralFlatness"
    /\ Len(signal) = 4
    /\ AllZero(signal)
    /\ ret.threw = ""
    /\ ret.value = Num(0)

\* squared magnitude of bin b of the DFT of x, Len(x) | 4
TruePower(x, b) == DFTSum(x, b, 1, Len(x)) ^ 2 + DFTSum(x, b, 2, Len(x)) ^ 2

\* the true power spectrum of x is the same non-zero value in bins 0..N/2
FlatSpectrum(x) ==
    /\ Len(x) \in {1, 2, 4}
    /\ TruePower(x, 0) > 0
    /\ \A b \in 0..(Len(x) \div 2) : TruePower(x, b) = TruePower(x, 0)

\* C17: for every input whose true power spectrum is constant over the bins
\* 0..N/2 (a unit impulse, say) spectralFlatness returns exactly 1.
C17_FlatSpectrumGivesOne ==
    (op = "spectralFlatness" /\ FlatSpectrum(signal)) => ret = Return(Num(1))

C19_EveryTensorDisposedOnce ==
    pc \in {"resolved", "rejected"} =>
        \A t \in DOMAIN tensors : tensors[t] = 1

binZeroed(fft, idx) == Get(fft, idx * 2) = Num(0) /\ Get(fft, idx * 2 + 1) = Num(0)

binKept(before, after, idx) ==
    /\ Get(after, idx * 2) = Get(before, idx * 2)
    /\ Get(after, idx * 2 + 1) = Get(before, idx * 2 + 1)

C21_ZeroedSetSymmetric ==
    op \in {"lowPassFilter", "highPassFilter"} /\ IsPowerOfTwo(Len(signal)) =>
        LET n == Len(signal)
            before == FFT(signal).value
            after == ZeroLoop(before, n, cutoffFreq, op = "lowPassFilter", n)
        IN  \A idx \in 1..(n - 1) :
                /\ binZeroed(after, idx) <=> binZeroed(after, n - idx)
                /\ ~binZeroed(after, idx) => binKept(before, after, idx)

\* the bins a zeroing loop writes, observed on a spectrum of the transform's
\* shape whose entries are all nonzero
zeroedBins(sig, c, low) ==
    LET n == Len(sig)
        marked == [j \in DOMAIN FFT(sig).value |-> Num(1)]
    IN  {idx \in 0..(n - 1) : Get(ZeroLoop(marked, n, c, low, n), idx * 2) = Num(0)}

\* idx / n equals the cutoff, or the computed 1 - cutoff
onCutoff(idx, n, c) ==
    \/ ~FreqAbove(idx, n, c) /\ ~FreqBelow(idx, n, c)
    \/ ~FreqAbove(idx, n, OneMinus(c)) /\ ~FreqBelow(idx, n, OneMinus(c))

\* C22 as stated: for a power-of-two length every bin 0..N-1, the bins on
\* the cutoff included, is zeroed by exactly one of lowPassFilter and
\* highPassFilter at the same cutoff.
C22_FiltersPartitionSpectrum ==
    op \in {"lowPassFilter", "highPassFilter"} /\ IsPowerOfTwo(Len(signal)) =>
        \A idx \in 0..(Len(signal) - 1) :
            (idx \in zeroedBins(signal, cutoffFreq, TRUE))
                # (idx \in zeroedBins(signal, cutoffFreq, FALSE))

\* C22 amended: every bin off the cutoff is zeroed by exactly one of the two
\* filters; a bin whose frequency equals the cutoff or the computed
\* 1 - cutoff is zeroed by neither.
C22_FiltersPartitionOffCutoff ==
    op \in {"lowPassFilter", "highPassFilter"} /\ IsPowerOfTwo(Len(signal)) =>
        \A idx \in 0..(Len(signal) - 1) :
            LET low == idx \in zeroedBins(signal, cutoffFreq, TRUE)
                high == idx \in zeroedBins(signal, cutoffFreq, FALSE)
            IN  IF onCutoff(idx, Len(signal), cutoffFreq)
                THEN ~low /\ ~high
                ELSE low # high

C22_Witness ==
    /\ op = "highPassFilter"
    /\ Len(signal) = 4
    /\ cutoffFreq = <<1, 4, 0>>
    /\ zeroedBins(signal, cutoffFreq, TRUE) = {2}
    /\ zeroedBins(signal, cutoffFreq, FALSE) = {0}

\* C23: FFT terminates for every input length, the empty input included:
\* it returns a spectrum or throws the precondition error, and its recursion
\* never nests deeper than the length allows.
C23_FFTTerminates ==
    op = "FFT" =>
        /\ ret.threw \in {"", PreconditionError}
        /\ FFTDepth(Len(signal), 1) <= Len(signal) + 1

\* C24: once the file check has passed, analyzeVoice issues at most
\* retries + 1 = 3 requests; it resolves with the first well-formed response
\* and issues no request after it; it rejects only after three failed
\* attempts, with the error of the third; the statement after the loop is
\* never reached.
C24_AtMostThreeAttempts ==
    /\ analysis.requests <= retries + 1
    /\ analysis.error # UnexpectedError
    /\ analysis.pc = "resolved" =>
           /\ analysis.result \in WellFormed
           /\ analysis.requests = Len(analysis.failures) + 1
    /\ analysis.pc = "rejected" /\ analysis.fileOk =>
           /\ analysis.requests = retries + 1
           /\ Len(analysis.failures) = retries + 1
           /\ analysis.error = analysis.failures[retries + 1]

C24_Witness ==
    /\ analysis.pc = "rejected"
    /\ analysis.fileOk
    /\ analysis.requests = 3
    /\ analysis.failures[1] # analysis.failures[3]

\* C25: under every interleaving of start() and stop() calls the native
\* startRecording is never invoked while a native recording started earlier
\* has not been stopped.
C25_OneNativeRecording == ~recorder.startedWhileActive

\* no call is in flight and no timer is pending
recorderQuiescent ==
    /\ \A s \in 1..MaxStarts : recorder.starts[s] \in {"idle", "true", "false"}
    /\ recorder.stopping = 0
    /\ recorder.timers = {}

\* C26: every recording for which start() returned true is stopped, by a
\* client's stop() or by the safety timer of that start(): once all calls
\* have returned and all timers have fired, no native recording is left
\* running and isRecording() is false.
C26_EveryRecordingStopped ==
    recorderQuiescent => ~recorder.nativeActive /\ ~recorder.isRecordingFlag

\* C27: after stopBackgroundService() has returned true and until
\* initBackgroundService() is called, the service is not running and no call
\* detector instance exists.
C27_StoppedStaysStopped ==
    service.stopped => ~service.isServiceRunning /\ service.callDetectorInstance = 0

\* C28: when startCallDetection has constructed a CallDetector and called
\* startListener() on it, the underlying detector's listener was started and
\* the error callback was not invoked with 'CallDetector not initialized'.
C28_ListenerStarted ==
    /\ \A e \in 1..Len(service.errors) : service.errors[e] # NotInitialized
    /\ service.callDetectorInstance # 0 =>
           service.wrappers[service.callDetectorInstance].listening

\* C29: once addToBlockList(p) has resolved true, isNumberBlocked(p) finds p
\* in the stored list until removeFromBlockList(p) is called, whatever calls
\* for other numbers run concurrently; and the stored list never holds a
\* number twice.
C29_BlockedStaysBlocked ==
    /\ \A n \in blockList.resolved :
           (\A o \in 1..MaxOps : ~(blockList.ops[o].kind = "remove"
                                   /\ blockList.ops[o].number = n
                                   /\ blockList.ops[o].pc \in {"reading", "writing"}))
               => includes(blockList.stored, n)
    /\ \A j, k \in 1..Len(blockList.stored) :
           j # k => blockList.stored[j] # blockList.stored[k]

\* C30: isAnalyzing is true exactly while at least one analyzeIncomingCall
\* or analyzeCall invocation is in flight, overlapping invocations included,
\* and false once all of them have finished.
C30_AnalyzingWhileInFlight ==
    context.isAnalyzing =
        (\E c \in 1..MaxAnalyses : context.invocations[c].pc \notin {"idle", "returned"})

====
